---- MODULE Spec2Model ----
(***************************************************************************)
(* Model of AdsorptionSimulator.run_simulation (src/Adsorption.py).        *)
(*                                                                         *)
(* One click on "Start Simulation" runs run_simulation: validation of the  *)
(* four text fields, derivation of the per-frame molecule budget, then the *)
(* 50-frame deposition loop (deposit, sample once per simulated second,    *)
(* rasterize the whole cloud), then the export of the results.             *)
(*                                                                         *)
(* Python floats are modelled as decimal numbers m * 10^e (or nan / inf),  *)
(* multiplied exactly; int() truncates toward zero and raises on nan/inf.  *)
(* Positions are rationals with denominator RngPeriod.                     *)
(***************************************************************************)
EXTENDS Integers, Sequences, FiniteSets, TLC

VARIABLES
    pc,                  \* "Idle" | "Running": is run_simulation inside its frame loop
    outcome,             \* the last invocation: none, rejected (validation message),
                         \* failed (exception before the loop), running,
                         \* aborted (exception inside the loop), completed
    status_label,        \* text of self.status_label
    disk,                \* names of the files written so far
    rng,                 \* state of the global numpy generator
    inputs,              \* the texts of the five widgets read by the current/last invocation
    r0, k,               \* parsed baseline resistance and sensitivity
    molecule_per_frame,  \* line 118
    adsorption_multiplier, \* lines 121-128
    t,                   \* next frame index of "for t in range(n_frames)"
    filenames,           \* line 130
    adsorbed_positions,  \* line 131
    n_adsorbed,          \* len(adsorbed_positions), the list's own length field
    time_points_1s, ads_counts_1s, resistance_1s, \* lines 133-135
    current_second,      \* line 136
    heatmap,             \* last result of np.histogram2d (occupied bins only)
    sample_frames        \* history: frame index at which each sample was recorded

vars == <<pc, outcome, status_label, disk, rng, inputs, r0, k, molecule_per_frame,
          adsorption_multiplier, t, filenames, adsorbed_positions, n_adsorbed,
          time_points_1s, ads_counts_1s, resistance_1s, current_second, heatmap,
          sample_frames>>

-----------------------------------------------------------------------------
(* Bounds of the model *)

MaxFlow == 2        \* flow-rate texts -12e-18, 0, 12e-18, .., MaxFlow*12e-18 SCCM
MaxFlowN == 2       \* flow-rate texts 25e-14 .. MaxFlowN*25e-14 SCCM (count model)
RngPeriod == 4      \* number of states of the generator

-----------------------------------------------------------------------------
(* Python floats *)

Num(m, e) == [kind |-> "num", m |-> m, e |-> e]
NaN == [kind |-> "nan", m |-> 0, e |-> 0]
Inf == [kind |-> "inf", m |-> 1, e |-> 0]      \* m carries the sign of the infinity
NegInf == [kind |-> "inf", m |-> -1, e |-> 0]
Unparseable == [kind |-> "bad", m |-> 0, e |-> 0]  \* a text float() rejects ("", "abc")

RECURSIVE PowTen(_)
PowTen(n) == IF n <= 0 THEN 1 ELSE 10 * PowTen(n - 1)

Sign(m) == IF m > 0 THEN 1 ELSE IF m < 0 THEN -1 ELSE 0

\* canonical form: no trailing decimal zeros in the mantissa, zero is 0e0
RECURSIVE Norm(_)
Norm(x) ==
    IF x.kind # "num" THEN x
    ELSE IF x.m = 0 THEN Num(0, 0)
    ELSE IF x.m % 10 = 0 THEN Norm(Num(x.m \div 10, x.e + 1))
    ELSE x

\* a * b on floats
Mul(a, b) ==
    IF a.kind = "nan" \/ b.kind = "nan" THEN NaN
    ELSE IF a.kind = "inf" \/ b.kind = "inf"
         THEN IF Sign(a.m) * Sign(b.m) = 0 THEN NaN
              ELSE IF Sign(a.m) * Sign(b.m) > 0 THEN Inf ELSE NegInf
    ELSE Norm(Num(a.m * b.m, a.e + b.e))

\* a <= b on floats (False whenever a nan is involved)
Leq(a, b) ==
    IF a.kind = "nan" \/ b.kind = "nan" THEN FALSE
    ELSE IF a.kind = "inf" THEN a.m < 0 \/ (b.kind = "inf" /\ b.m > 0)
    ELSE IF b.kind = "inf" THEN b.m > 0
    ELSE LET lo == IF a.e < b.e THEN a.e ELSE b.e
         IN  a.m * PowTen(a.e - lo) <= b.m * PowTen(b.e - lo)

\* int(x): does it raise (ValueError on nan, OverflowError on inf)
IntRaises(x) == x.kind # "num"

\* int(x) of a finite float: truncation toward zero
IntOf(x) ==
    IF x.e >= 0 THEN x.m * PowTen(x.e)
    ELSE IF 0 - x.e > 9 THEN 0
    ELSE IF x.m >= 0 THEN x.m \div PowTen(0 - x.e)
    ELSE 0 - ((0 - x.m) \div PowTen(0 - x.e))

\* float(text): does it raise ValueError
FloatRaises(text) == text.kind = "bad"

\* float(text) of a parseable text
FloatOf(text) == Norm(text)

-----------------------------------------------------------------------------
(* Constants of run_simulation *)

NA == Num(6022, 20)               \* 6.022e23
SCCM_to_mols == Num(745, -9)      \* 7.45e-7
surface_length == 10
surface_width == 10
surface_thickness == 2
total_time == 10
n_frames == 50
max_sites == 1000000
bins == 50

\* total_time / n_frames = 0.2
time_per_frame == Norm(Num((total_time * 10) \div n_frames, -1))

StatusInvalid == "Please enter valid inputs."
StatusRunning == "Simulation running..."
\* the check mark that opens the text at line 223 is left out
StatusDone == "Simulation completed. GIF, heatmap, adsorption and resistance graphs generated."


-----------------------------------------------------------------------------
(* Lines 87-98: validation *)

\* the try block raises: a float() fails, or the range check raises ValueError
ValidationFails(inp) ==
    \/ FloatRaises(inp.sccm)
    \/ FloatRaises(inp.stick)
    \/ FloatRaises(inp.r0)
    \/ FloatRaises(inp.k)
    \/ ~(Leq(Num(0, 0), FloatOf(inp.stick)) /\ Leq(FloatOf(inp.stick), Num(1, 0)))

(* Lines 116-118: the float handed to int() for molecule_per_frame *)
MoleculeBudget(sccm, stick_coeff) ==
    LET mol_per_s == Mul(sccm, SCCM_to_mols)
        molecule_per_s == Mul(mol_per_s, NA)
    IN  Mul(Mul(molecule_per_s, time_per_frame), stick_coeff)

\* variant: the chain has no final else, an unknown selection keeps the last branch's value
AdsorptionMultiplierNoDefault(surface_type) ==
    IF surface_type = "nanorod" THEN Num(2, 0)
    ELSE IF surface_type = "nanoflake" THEN Num(12, -1)
    ELSE Num(8, -1)

(* Lines 121-128 *)
AdsorptionMultiplier(surface_type) ==
    IF surface_type = "nanorod" THEN Num(2, 0)
    ELSE IF surface_type = "nanoflake" THEN Num(12, -1)
    ELSE IF surface_type = "nanoparticle" THEN Num(8, -1)
    ELSE Num(1, 0)

\* variant: the morphology multiplier is not applied
EffectiveMoleculesNoMultiplier(mpf, mult) == mpf

(* Line 141 *)
EffectiveMolecules(mpf, mult) == IntOf(Mul(Num(mpf, 0), mult))

-----------------------------------------------------------------------------
(* Lines 143-148: the generator and the deposited points *)

\* the generator steps through its RngPeriod states in a fixed order
NextRng(r) == (r + 1) % RngPeriod

RECURSIVE RngAfter(_, _)
RngAfter(r, n) == IF n <= 0 THEN r ELSE RngAfter(NextRng(r), n - 1)

\* np.random.uniform(low, high, size) from generator state r: the i-th value is
\* low + (high - low) * u_i with u_i = (i-th state) / RngPeriod in [0, 1).
\* Values are numerators over the denominator RngPeriod.
Uniform(low, high, size, r) ==
    [i \in 1..size |-> low * RngPeriod + (high - low) * RngAfter(r, i)]

\* the entries appended by lines 147-148
NewPositions(effective_molecules, r) ==
    LET x_positions == Uniform(0, surface_length, effective_molecules, r)
        y_positions == Uniform(0, surface_width, effective_molecules,
                               RngAfter(r, effective_molecules))
    IN  [i \in 1..effective_molecules |->
            <<x_positions[i], y_positions[i], surface_thickness>>]

\* variant: the list is rebuilt in every frame
DepositReplace(cloud, new) == new

\* lines 147-148: the list after the appends
Deposit(cloud, new) == cloud \o new

-----------------------------------------------------------------------------
(* Lines 150-159: sampling once per simulated second *)

ElapsedTime(frame) == Mul(Num(frame + 1, 0), time_per_frame)

\* variant: the elapsed time is taken before the frame, t * time_per_frame
ShouldSampleLate(frame, second) ==
    Leq(Num(second + 1, 0), Mul(Num(frame, 0), time_per_frame))

ShouldSample(frame, second) == Leq(Num(second + 1, 0), ElapsedTime(frame))

\* number of decimal digits a division by n shifts (n a power of ten)
RECURSIVE Log10(_)
Log10(n) == IF n <= 1 THEN 0 ELSE 1 + Log10(n \div 10)

\* variant: the ratio is not capped
CoverageUncapped(total_adsorbed) == Norm(Num(total_adsorbed, 0 - Log10(max_sites)))

\* min(total_adsorbed / max_sites, 1.0); max_sites = 1e6 makes the division a shift
Coverage(total_adsorbed) ==
    LET ratio == Norm(Num(total_adsorbed, 0 - Log10(max_sites)))
    IN  IF Leq(ratio, Num(1, 0)) THEN ratio ELSE Num(1, 0)

\* r0 * np.exp(k * coverage), kept as the term base * exp(exponent)
Resistance(base, sens, coverage) == [base |-> base, exponent |-> Mul(sens, coverage)]

-----------------------------------------------------------------------------
(* Lines 162-166: np.histogram2d over the whole cloud *)

\* bin of coordinate x on an axis [0, high]: half-open bins, the last one closed
BinIndex(x, high) ==
    IF x = high * RngPeriod THEN bins - 1 ELSE (x * bins) \div (high * RngPeriod)

InRange(p) ==
    /\ 0 <= p[1] /\ p[1] <= surface_length * RngPeriod
    /\ 0 <= p[2] /\ p[2] <= surface_width * RngPeriod

BinOf(p) == <<BinIndex(p[1], surface_length), BinIndex(p[2], surface_width)>>

\* the grid as a function on its occupied bins; every other bin holds 0
Histogram2d(points) ==
    LET counted == {i \in 1..Len(points) : InRange(points[i])}
        occupied == {BinOf(points[i]) : i \in counted}
    IN  [b \in occupied |-> Cardinality({i \in counted : BinOf(points[i]) = b})]

\* ads[:,0] on np.array([]) raises IndexError
HeatmapRaises(points_len) == points_len = 0

FrameFile(frame) == <<"frame", frame>>
HeatmapFile == <<"heatmap", 0>>
GifFile == <<"adsorption_simulation", 0>>


-----------------------------------------------------------------------------
(* What the user can type and select *)

SurfaceTexts == {"nanorod", "nanoflake", "nanoparticle", ""}
SccmNumbers == {Num(12 * i, -18) : i \in -1..MaxFlow}
StickNumbers == {Num(0, 0), Num(5, -1), Num(1, 0)}

\* every combination of texts that are plain numbers with the sticking coefficient in range
NumericInputs == [surface : SurfaceTexts, sccm : SccmNumbers, stick : StickNumbers,
                  r0 : {Num(1000, 0)}, k : {Num(2, 0)}]

TypicalInputs == [surface |-> "nanorod", sccm |-> Num(12 * MaxFlow, -18), stick |-> Num(1, 0),
                  r0 |-> Num(1000, 0), k |-> Num(2, 0)]

\* one field at a time replaced by a text that is no number, a non-finite float,
\* or a sticking coefficient just outside [0, 1]
OddInputs ==
    {[TypicalInputs EXCEPT !.sccm = x] : x \in {Unparseable, NaN, Inf}}
    \cup {[TypicalInputs EXCEPT !.stick = x] :
            x \in {Unparseable, NaN, Inf, Num(-1, -4), Num(10001, -4)}}
    \cup {[TypicalInputs EXCEPT !.r0 = x] : x \in {Unparseable, NaN}}
    \cup {[TypicalInputs EXCEPT !.k = x] : x \in {Unparseable, Inf}}
    \cup {[TypicalInputs EXCEPT !.sccm = Inf, !.stick = Num(0, 0)],
          [TypicalInputs EXCEPT !.surface = "", !.stick = Num(10001, -4)],
          [TypicalInputs EXCEPT !.sccm = Unparseable, !.stick = Num(-1, -4)]}

Inputs == NumericInputs \cup OddInputs

\* the widgets right after __init__: first combo item, empty line edits
InitialInputs == [surface |-> "nanorod", sccm |-> Unparseable, stick |-> Unparseable,
                  r0 |-> Unparseable, k |-> Unparseable]

-----------------------------------------------------------------------------
(* State after construction. The locals of run_simulation hold placeholders  *)
(* until an invocation binds them.                                           *)

LocalsUnbound ==
    /\ r0 = NaN /\ k = NaN
    /\ molecule_per_frame = 0
    /\ adsorption_multiplier = Num(1, 0)
    /\ t = 0
    /\ filenames = <<>>
    /\ adsorbed_positions = <<>>
    /\ n_adsorbed = 0
    /\ time_points_1s = <<>> /\ ads_counts_1s = <<>> /\ resistance_1s = <<>>
    /\ current_second = 0
    /\ heatmap = <<>>
    /\ sample_frames = <<>>

\* an invocation that returns before line 130 binds none of them
LeaveLocalsUnbound ==
    /\ r0' = NaN /\ k' = NaN
    /\ molecule_per_frame' = 0
    /\ adsorption_multiplier' = Num(1, 0)
    /\ t' = 0
    /\ filenames' = <<>>
    /\ adsorbed_positions' = <<>>
    /\ n_adsorbed' = 0
    /\ time_points_1s' = <<>> /\ ads_counts_1s' = <<>> /\ resistance_1s' = <<>>
    /\ current_second' = 0
    /\ heatmap' = <<>>
    /\ sample_frames' = <<>>

Init ==
    /\ pc = "Idle"
    /\ outcome = "none"
    /\ status_label = ""
    /\ disk = {}
    /\ rng \in 0..(RngPeriod - 1)
    /\ inputs = InitialInputs
    /\ LocalsUnbound

-----------------------------------------------------------------------------
(* run_simulation, lines 87-98: the inputs are rejected *)
Reject(inp) ==
    /\ pc = "Idle"
    /\ ValidationFails(inp)
    /\ inputs' = inp
    /\ status_label' = StatusInvalid
    /\ outcome' = "rejected"
    /\ LeaveLocalsUnbound
    /\ UNCHANGED <<pc, disk, rng>>

(* run_simulation, lines 87-118: validation passes, int() at line 118 raises *)
BudgetError(inp) ==
    /\ pc = "Idle"
    /\ ~ValidationFails(inp)
    /\ IntRaises(MoleculeBudget(FloatOf(inp.sccm), FloatOf(inp.stick)))
    /\ inputs' = inp
    /\ status_label' = StatusRunning
    /\ outcome' = "failed"
    /\ LeaveLocalsUnbound
    /\ UNCHANGED <<pc, disk, rng>>

\* variant: the list is an attribute created once and never cleared
StaleCloud == adsorbed_positions

\* lines 130-136: the run's collections as the loop first sees them
FreshCloud == <<>>
FreshSeries == <<>>
FreshSecond == 0

(* run_simulation, lines 87-138: validation passes and the loop is entered *)
Begin(inp) ==
    /\ pc = "Idle"
    /\ ~ValidationFails(inp)
    /\ ~IntRaises(MoleculeBudget(FloatOf(inp.sccm), FloatOf(inp.stick)))
    /\ inputs' = inp
    /\ status_label' = StatusRunning
    /\ r0' = FloatOf(inp.r0)
    /\ k' = FloatOf(inp.k)
    /\ molecule_per_frame' = IntOf(MoleculeBudget(FloatOf(inp.sccm), FloatOf(inp.stick)))
    /\ adsorption_multiplier' = AdsorptionMultiplier(inp.surface)
    /\ filenames' = <<>>
    /\ adsorbed_positions' = FreshCloud
    /\ n_adsorbed' = Len(FreshCloud)
    /\ time_points_1s' = FreshSeries
    /\ ads_counts_1s' = FreshSeries
    /\ resistance_1s' = FreshSeries
    /\ sample_frames' = <<>>
    /\ current_second' = FreshSecond
    /\ t' = 0
    /\ pc' = "Running"
    /\ outcome' = "running"
    /\ UNCHANGED <<disk, rng, heatmap>>

-----------------------------------------------------------------------------
(* One pass of the loop body, lines 140-181 *)

\* lines 150-159 with total_adsorbed = total
RecordSample(total) ==
    IF ShouldSample(t, current_second)
    THEN /\ current_second' = current_second + 1
         /\ time_points_1s' = Append(time_points_1s, current_second + 1)
         /\ ads_counts_1s' = Append(ads_counts_1s, total)
         /\ resistance_1s' = Append(resistance_1s, Resistance(r0, k, Coverage(total)))
         /\ sample_frames' = Append(sample_frames, t)
    ELSE UNCHANGED <<current_second, time_points_1s, ads_counts_1s, resistance_1s,
                     sample_frames>>

\* the exception leaves run_simulation: no status is written, nothing is exported
Abort ==
    /\ pc' = "Idle"
    /\ outcome' = "aborted"
    /\ UNCHANGED <<status_label, disk, inputs, r0, k, molecule_per_frame,
                   adsorption_multiplier, t, filenames, heatmap>>

\* lines 141-143: np.random.uniform raises ValueError on a negative size
FrameDrawError ==
    /\ pc = "Running" /\ t < n_frames
    /\ EffectiveMolecules(molecule_per_frame, adsorption_multiplier) < 0
    /\ Abort
    /\ UNCHANGED <<rng, adsorbed_positions, n_adsorbed, current_second, time_points_1s,
                   ads_counts_1s, resistance_1s, sample_frames>>

\* lines 141-164: deposition and sampling happen, then ads[:,0] raises IndexError
FrameHeatmapError ==
    /\ pc = "Running" /\ t < n_frames
    /\ LET effective_molecules == EffectiveMolecules(molecule_per_frame, adsorption_multiplier)
       IN  /\ effective_molecules >= 0
           /\ adsorbed_positions' = Deposit(adsorbed_positions, NewPositions(effective_molecules, rng))
           /\ n_adsorbed' = Len(adsorbed_positions')
           /\ rng' = RngAfter(rng, 2 * effective_molecules)
           /\ RecordSample(Len(adsorbed_positions'))
           /\ HeatmapRaises(Len(adsorbed_positions'))
           /\ Abort

\* lines 141-181: the whole body
Frame ==
    /\ pc = "Running" /\ t < n_frames
    /\ LET effective_molecules == EffectiveMolecules(molecule_per_frame, adsorption_multiplier)
       IN  /\ effective_molecules >= 0
           /\ adsorbed_positions' = Deposit(adsorbed_positions, NewPositions(effective_molecules, rng))
           /\ n_adsorbed' = Len(adsorbed_positions')
           /\ rng' = RngAfter(rng, 2 * effective_molecules)
           /\ RecordSample(Len(adsorbed_positions'))
           /\ ~HeatmapRaises(Len(adsorbed_positions'))
           /\ heatmap' = Histogram2d(adsorbed_positions')
           /\ filenames' = Append(filenames, FrameFile(t))
           /\ disk' = disk \cup {FrameFile(t)}
           /\ t' = t + 1
           /\ UNCHANGED <<pc, outcome, status_label, inputs, r0, k, molecule_per_frame,
                          adsorption_multiplier>>

(* Lines 183-223: plots, heatmap.png, the GIF, the success status *)
Finish ==
    /\ pc = "Running" /\ t = n_frames
    /\ disk' = disk \cup {HeatmapFile, GifFile}
    /\ status_label' = StatusDone
    /\ pc' = "Idle"
    /\ outcome' = "completed"
    /\ UNCHANGED <<rng, inputs, r0, k, molecule_per_frame, adsorption_multiplier, t,
                   filenames, adsorbed_positions, n_adsorbed, time_points_1s,
                   ads_counts_1s, resistance_1s, current_second, heatmap, sample_frames>>

Next ==
    \/ \E inp \in Inputs : Reject(inp)
    \/ \E inp \in Inputs : BudgetError(inp)
    \/ \E inp \in Inputs : Begin(inp)
    \/ FrameDrawError
    \/ FrameHeatmapError
    \/ Frame
    \/ Finish

Spec == Init /\ [][Next]_vars


-----------------------------------------------------------------------------
(* The same run with the point cloud kept as its length only: the positions  *)
(* influence neither the sampling (lines 150-159) nor the control flow, and  *)
(* a cloud of a million entries is not enumerated.                           *)

SccmNumbersN == {Num(25 * i, -14) : i \in -1..MaxFlowN}

InputsN ==
    [surface : SurfaceTexts, sccm : SccmNumbersN, stick : {Num(5, -1), Num(1, 0)},
     r0 : {Num(1000, 0)}, k : {Num(2, 0), Num(-5, -1)}]
    \cup {[TypicalInputs EXCEPT !.sccm = x] : x \in {Unparseable, NaN}}

\* lines 141-164 on the length: the body up to the IndexError of an empty cloud
FrameNHeatmapError ==
    /\ pc = "Running" /\ t < n_frames
    /\ LET effective_molecules == EffectiveMolecules(molecule_per_frame, adsorption_multiplier)
       IN  /\ effective_molecules >= 0
           /\ n_adsorbed' = n_adsorbed + effective_molecules
           /\ RecordSample(n_adsorbed')
           /\ HeatmapRaises(n_adsorbed')
           /\ Abort
           /\ UNCHANGED <<rng, adsorbed_positions>>

\* lines 141-181 on the length
FrameN ==
    /\ pc = "Running" /\ t < n_frames
    /\ LET effective_molecules == EffectiveMolecules(molecule_per_frame, adsorption_multiplier)
       IN  /\ effective_molecules >= 0
           /\ n_adsorbed' = n_adsorbed + effective_molecules
           /\ RecordSample(n_adsorbed')
           /\ ~HeatmapRaises(n_adsorbed')
           /\ filenames' = Append(filenames, FrameFile(t))
           /\ disk' = disk \cup {FrameFile(t)}
           /\ t' = t + 1
           /\ UNCHANGED <<pc, outcome, status_label, inputs, r0, k, molecule_per_frame,
                          adsorption_multiplier, rng, adsorbed_positions, heatmap>>

NextN ==
    \/ \E inp \in InputsN : Reject(inp)
    \/ \E inp \in InputsN : BudgetError(inp)
    \/ \E inp \in InputsN : Begin(inp)
    \/ FrameDrawError
    \/ FrameNHeatmapError
    \/ FrameN
    \/ Finish

SpecN == Init /\ [][NextN]_vars


-----------------------------------------------------------------------------
(* Vocabulary of the properties *)

Min(a, b) == IF a <= b THEN a ELSE b

\* floor of a finite float
Floor(x) == IF x.e >= 0 THEN x.m * PowTen(x.e) ELSE x.m \div PowTen(0 - x.e)

IsPrefix(a, b) == Len(a) <= Len(b) /\ \A i \in 1..Len(a) : a[i] = b[i]

RECURSIVE SumOver(_, _)
SumOver(f, S) ==
    IF S = {} THEN 0
    ELSE LET x == CHOOSE y \in S : TRUE IN f[x] + SumOver(f, S \ {x})

\* the invocation entered the frame loop
EnteredLoop == outcome \in {"running", "aborted", "completed"}

\* the per-frame count the specification derives from the inputs
BudgetOf(inp) == Floor(MoleculeBudget(inp.sccm, inp.stick))
MultiplierTable(surface) ==
    IF surface = "nanorod" THEN Num(2, 0)
    ELSE IF surface = "nanoflake" THEN Num(12, -1)
    ELSE IF surface = "nanoparticle" THEN Num(8, -1)
    ELSE Num(1, 0)
EffectiveOf(inp) == Floor(Mul(Num(BudgetOf(inp), 0), MultiplierTable(inp.surface)))

\* a text that denotes a real number
IsReal(text) == text.kind = "num"

\* all four numeric inputs are real numbers and 0 <= sticking coefficient <= 1
NumericFieldsValid(inp) ==
    /\ IsReal(inp.sccm) /\ IsReal(inp.stick) /\ IsReal(inp.r0) /\ IsReal(inp.k)
    /\ inp.stick.m >= 0
    /\ Leq(inp.stick, Num(1, 0))

\* no frame ran and nothing was created by the invocation
NothingCreated ==
    /\ t = 0 /\ filenames = <<>> /\ adsorbed_positions = <<>> /\ n_adsorbed = 0
    /\ time_points_1s = <<>> /\ ads_counts_1s = <<>> /\ resistance_1s = <<>>

-----------------------------------------------------------------------------
(* C1: a completed run records exactly 10 samples with times 1,2,...,10;   *)
(* the second counter grows by one per sample, and the samples are taken   *)
(* at frames 4, 9, ..., 49 and at no other frame (after f completed frames *)
(* there are f div 5 samples), so at most one per frame.                   *)
C1_SamplingCadence ==
    /\ Len(time_points_1s) = current_second
    /\ Len(sample_frames) = current_second
    /\ Len(ads_counts_1s) = current_second
    /\ Len(resistance_1s) = current_second
    /\ \A i \in 1..Len(time_points_1s) :
          time_points_1s[i] = i /\ sample_frames[i] = 5 * i - 1
    /\ outcome \in {"running", "completed"} => current_second = t \div 5
    /\ outcome = "completed" => time_points_1s = <<1, 2, 3, 4, 5, 6, 7, 8, 9, 10>>

C1_Witness ==
    /\ outcome = "completed"
    /\ sample_frames = <<4, 9, 14, 19, 24, 29, 34, 39, 44, 49>>
    /\ time_points_1s = <<1, 2, 3, 4, 5, 6, 7, 8, 9, 10>>

(* C2: after a completed run the cloud holds 50 times the per-frame        *)
(* effective count floor(budget * multiplier), budget = floor(molecule     *)
(* flow * seconds per frame * sticking coefficient), whatever was drawn.   *)
C2_CloudLength ==
    /\ outcome = "completed" => Len(adsorbed_positions) = 50 * EffectiveOf(inputs)
    /\ outcome = "running" => Len(adsorbed_positions) = t * EffectiveOf(inputs)

C2_Witness ==
    /\ outcome = "completed"
    /\ inputs.surface = "nanoflake"
    /\ inputs.stick = Num(5, -1)
    /\ Len(adsorbed_positions) = 50

(* C3: a run whose per-frame effective count is 0 goes through all 50      *)
(* frames without an error, its cloud stays empty and its 10 resistance    *)
(* samples equal the baseline resistance (r0 * exp(k * 0)).                *)
C3_ZeroCountRunCompletes ==
    (/\ outcome \in {"aborted", "completed"}
     /\ EffectiveMolecules(molecule_per_frame, adsorption_multiplier) = 0)
    => /\ outcome = "completed"
       /\ t = n_frames
       /\ adsorbed_positions = <<>>
       /\ Len(resistance_1s) = 10
       /\ \A i \in 1..Len(resistance_1s) :
             resistance_1s[i] = [base |-> r0, exponent |-> Num(0, 0)]

(* C4: the loop is entered exactly when the four numeric inputs are real   *)
(* numbers and 0 <= sticking coefficient <= 1; in every other case the     *)
(* fixed validation message is set and nothing is executed or created.     *)
C4_ValidationDecides ==
    outcome # "none" =>
        IF NumericFieldsValid(inputs)
        THEN EnteredLoop
        ELSE outcome = "rejected" /\ status_label = StatusInvalid /\ NothingCreated

(* C5: every invocation that passes validation, a zero or negative flow    *)
(* rate included, runs frames 0..49 and ends Idle with the success status; *)
(* none leaves Running earlier.                                            *)
C5_RunsAllFrames ==
    (pc = "Idle" /\ outcome \notin {"none", "rejected"} /\ NumericFieldsValid(inputs))
    => /\ outcome = "completed"
       /\ t = n_frames
       /\ status_label = StatusDone
       /\ filenames = [i \in 1..n_frames |-> FrameFile(i - 1)]

(* C6: every sample's count is the cloud length right after the deposition *)
(* of its frame, its resistance is r0 * exp(k * min(count / 1e6, 1)) with  *)
(* the coverage in [0, 1]; from count >= 1e6 on the coverage is 1 and all  *)
(* later samples have the resistance r0 * exp(k).                          *)
C6_SampleFormula ==
    /\ \A i \in 1..Len(resistance_1s) :
          /\ ads_counts_1s[i] = (sample_frames[i] + 1) * EffectiveOf(inputs)
          /\ resistance_1s[i] =
                [base |-> r0,
                 exponent |-> Mul(k, Norm(Num(Min(ads_counts_1s[i], 1000000), -6)))]
          /\ Leq(Num(0, 0), Coverage(ads_counts_1s[i]))
          /\ Leq(Coverage(ads_counts_1s[i]), Num(1, 0))
          /\ ads_counts_1s[i] >= 1000000 =>
                /\ Coverage(ads_counts_1s[i]) = Num(1, 0)
                /\ \A j \in i..Len(resistance_1s) :
                      resistance_1s[j] = [base |-> r0, exponent |-> k]
    /\ (outcome = "running" /\ current_second > 0 /\ t = sample_frames[current_second] + 1)
          => ads_counts_1s[current_second] = n_adsorbed

C6_Witness ==
    /\ outcome = "completed"
    /\ Len(ads_counts_1s) = 10
    /\ ads_counts_1s[1] > 0 /\ ads_counts_1s[1] < 1000000
    /\ ads_counts_1s[4] < 1000000
    /\ ads_counts_1s[5] >= 1000000
    /\ resistance_1s[1] # resistance_1s[5]
    /\ resistance_1s[10] = resistance_1s[5]

(* C7: the morphology lookup never fails: nanorod, nanoflake, nanoparticle *)
(* give 2.0, 1.2, 0.8, every other selection (the empty string included)   *)
(* gives 1.0, and the selection never causes a validation error.           *)
C7_MorphologyLookup ==
    /\ EnteredLoop =>
          /\ adsorption_multiplier = MultiplierTable(inputs.surface)
          /\ inputs.surface \notin {"nanorod", "nanoflake", "nanoparticle"}
                => adsorption_multiplier = Num(1, 0)
    /\ outcome = "rejected" => ~NumericFieldsValid(inputs)

C7_Witness ==
    /\ outcome = "completed"
    /\ inputs.surface = ""
    /\ adsorption_multiplier = Num(1, 0)
    /\ Len(adsorbed_positions) > 0

(* C8: within a run the cloud is append-only: each step of the run keeps   *)
(* the previous cloud as a prefix and never shortens it, and the recorded  *)
(* cumulative counts are non-decreasing in sample order.                   *)
C8_AppendOnly ==
    /\ [](\A i \in 1..Len(ads_counts_1s) : \A j \in i..Len(ads_counts_1s) :
              ads_counts_1s[i] <= ads_counts_1s[j])
    /\ [][pc = "Running" =>
            /\ IsPrefix(adsorbed_positions, adsorbed_positions')
            /\ Len(adsorbed_positions') >= Len(adsorbed_positions)]_vars

C8_Witness ==
    /\ pc = "Running"
    /\ t = 10
    /\ Len(adsorbed_positions) = 40
    /\ ads_counts_1s = <<20, 40>>

\* the grid of the last rasterized frame counts the whole cloud, bin by bin
GridCoversWholeCloud ==
    (outcome \in {"running", "completed"} /\ t > 0) =>
        /\ SumOver(heatmap, DOMAIN heatmap) = Len(adsorbed_positions)
        /\ \A b \in DOMAIN heatmap :
              heatmap[b] = Cardinality({n \in 1..Len(adsorbed_positions) :
                  LET x == adsorbed_positions[n][1]
                      y == adsorbed_positions[n][2]
                  IN  /\ x * 50 >= b[1] * surface_length * RngPeriod
                      /\ x * 50 < (b[1] + 1) * surface_length * RngPeriod
                      /\ y * 50 >= b[2] * surface_width * RngPeriod
                      /\ y * 50 < (b[2] + 1) * surface_width * RngPeriod})

(* C9: in every one of the 50 frames of a run a density grid is built      *)
(* after the deposition from the whole cumulative cloud (its bins sum to   *)
(* the cloud length), and exactly 50 frame images are produced in order.   *)
C9_GridEveryFrame ==
    /\ GridCoversWholeCloud
    /\ EnteredLoop =>
          /\ Len(filenames) = t
          /\ \A i \in 1..Len(filenames) : filenames[i] = FrameFile(i - 1)
          /\ pc = "Idle" => Len(filenames) = 50

(* C10: every validated run starts with an empty cloud, empty time series  *)
(* and second counter 0, whatever ran before, so its sample times and      *)
(* cumulative counts are a function of its own inputs.                     *)
C10_FreshRun ==
    /\ [][(pc = "Idle" /\ pc' = "Running") =>
            /\ adsorbed_positions' = <<>>
            /\ time_points_1s' = <<>> /\ ads_counts_1s' = <<>> /\ resistance_1s' = <<>>
            /\ current_second' = 0]_vars
    /\ [](\A i \in 1..Len(ads_counts_1s) :
              /\ time_points_1s[i] = i
              /\ ads_counts_1s[i] = 5 * i * EffectiveOf(inputs))

\* a second run has started after a completed one
C10_Witness ==
    /\ pc = "Running"
    /\ GifFile \in disk
    /\ t = 5
    /\ ads_counts_1s = <<5 * EffectiveOf(inputs)>>
    /\ Len(adsorbed_positions) = 5 * EffectiveOf(inputs)

====
